---- MODULE Spec2Model ----
(***************************************************************************)
(* Model of the NITRAFlame fireplace client: the State record and its      *)
(* status-frame decoder (nitraflame_bt/state.py), the constants of the     *)
(* protocol (nitraflame_bt/const.py) and the Device session's setters      *)
(* (nitraflame_bt/device.py).                                              *)
(*                                                                         *)
(* Spec       one session driven by one caller: every call runs to its end *)
(*            before the next event (no notification is delivered while a  *)
(*            setter is awaiting a write).  The transport may refuse to    *)
(*            connect and may fail any write.                              *)
(* SpecCodec  State.update_from_bytes applied to byte sequences drawn      *)
(*            from a bounded set of well-formed and malformed frames.      *)
(* SpecConn   one session whose connect() and disconnect() are called by   *)
(*            several coroutines: every await is a point where another     *)
(*            coroutine or a transport callback runs.                      *)
(* SpecOps    one session whose setters and query_state are called by      *)
(*            several coroutines, await by await, with notifications and   *)
(*            link loss arriving at any await.                             *)
(* SpecOpsFair  SpecOps on a link that stays up, where every suspended     *)
(*            coroutine is eventually resumed (termination properties).    *)
(* SpecTwo    two Device instances of one process, which share the class   *)
(*            attributes of Device (locks, event, cached State).           *)
(* SpecScan   scan_for_nitraflame_devices (nitraflame_bt/scanner.py) with  *)
(*            detection callbacks arriving until the scanner has stopped.  *)
(* SpecScanFair  SpecScan where the scanner's awaits eventually return.    *)
(***************************************************************************)
EXTENDS Integers, Sequences, FiniteSets, TLC

VARIABLES
    state,          \* Device._state: the cached State record
    is_connected,   \* Device._is_connected
    link,           \* Device._connection: "unset" (attribute never assigned),
                    \* "up" (a connected BleakClient), "down" (a disconnected one)
    written,        \* the write_gatt_char calls issued by the last call, in order
                    \* (the last one is the one that raised when last.ret is an error)
    last,           \* the event the event loop has just run: its name, argument, the
                    \* State before it and its outcome; op = "__init__" after
                    \* construction and "idle" once an event is over.
                    \* after: "none", or, when the call repeats the call before
                    \* it, the outcome of that call
    pc,             \* per calling coroutine: "idle", or the await of connect() or
                    \* disconnect() it is suspended at
    connection_lock,    \* Device._connection_lock: Unlocked, or the coroutine holding it
    subscribed,     \* start_notify(CMD_RESPONSE, on_notify) has returned on the
                    \* BleakClient of Device._connection, which is still open
    pending_callback,   \* a closed BleakClient has yet to call disconnected_callback
    event,          \* SpecConn: the step the event loop has just run: the method, the
                    \* coroutine, the await that ended ("call": the method was
                    \* entered), whether it raised BleakError, and ret: "awaiting"
                    \* (suspended again) or "ok" (the method returned)
    call,           \* SpecOps, per calling coroutine: the setter or query_state it
                    \* is in ("none": in none), its argument, its local variables,
                    \* the commands it has passed to write_gatt_char, and lost: the
                    \* link was lost while it was awaiting write_gatt_char
    state_lock,     \* Device._state_lock: Unlocked, or the coroutine holding it
    state_lock_waiters, \* the coroutines waiting in _state_lock.acquire(), in
                    \* the order they arrived (asyncio.Lock wakes the first)
    state_updated,  \* Device._state_updated: the asyncio.Event is set
    heard,          \* SpecOps, since the last _state_updated.clear() of a
                    \* query_state that has not returned: the last frame that
                    \* update_from_bytes returned True for (<<>>: none), whether a
                    \* well-formed frame has arrived, and the State at the clear
    max_devices,    \* SpecScan: the argument of scan_for_nitraflame_devices
    device_list,    \* its local device_list: the BLEDevice handles, in order
    scan_done,      \* its local asyncio.Event scan_done is set
    scan_pc,        \* where the scan is: "none" (not called), "starting"
                    \* (entering the BleakScanner context), "waiting" (at
                    \* wait_for), "stopping" (leaving the context), "returned"
    detected,       \* SpecScan: the BLEDevice of the last _detection_callback
    sessions        \* SpecTwo, per Device instance: its _state, _is_connected and
                    \* _connection, and the coroutine that calls its methods (its
                    \* position, its call, what it has heard); the locks and the
                    \* signal are attributes of the class, shared by the instances

conn_vars == <<pc, connection_lock, subscribed, pending_callback, event>>

ops_vars == <<call, state_lock, state_lock_waiters, state_updated, heard>>

scan_vars == <<max_devices, device_list, scan_done, scan_pc, detected>>

vars ==
    <<state, is_connected, link, written, last, conn_vars, ops_vars, scan_vars,
      sessions>>

----------------------------------------------------------------------------
(* const.py *)

OFF == 11
LOW == 12
HIGH == 13
HeatMode == {OFF, LOW, HIGH}

THERMOSTAT_MIN == 16
THERMOSTAT_MAX == 31
BRIGHTNESS_MIN == 1
BRIGHTNESS_MAX == 10
COLOR_MIN == 0
COLOR_MAX == 24
Color == COLOR_MIN..COLOR_MAX

QUERY_STATE == <<161, 1, 10>>
POWER_TOGGLE == <<161, 1, 0>>
SET_HEAT_LOW == <<161, 1, 1>>
SET_HEAT_HIGH == <<161, 1, 3>>
FLAME_BRIGHTNESS_INC == <<161, 1, 4>>
FLAME_BRIGHTNESS_DEC == <<161, 1, 5>>
BED_BRIGHTNESS_INC == <<161, 1, 6>>
BED_BRIGHTNESS_DEC == <<161, 1, 7>>
SET_FLAME_COLOR == <<193, 1>>
SET_BED_COLOR == <<194, 1>>
SET_THERMOSTAT == <<162, 1>>

----------------------------------------------------------------------------
(* state.py *)

Min2(a, b) == IF a < b THEN a ELSE b
Max2(a, b) == IF a > b THEN a ELSE b

\* clamp with the upper end excluded
clamp_below_max(value, min_value, max_value) ==
    Max2(min_value, Min2(value, max_value - 1))

clamp(value, min_value, max_value) == Max2(min_value, Min2(value, max_value))

\* State() with every numeric field zero
State_init_zeroed ==
    [is_powered_on |-> FALSE,
     heat_mode |-> OFF,
     thermostat |-> 0,
     flame_color |-> 0,
     bed_color |-> 0,
     flame_brightness |-> 0,
     bed_brightness |-> 0]

State_init ==
    [is_powered_on |-> FALSE,
     heat_mode |-> OFF,
     thermostat |-> THERMOSTAT_MIN,
     flame_color |-> COLOR_MIN,
     bed_color |-> COLOR_MIN,
     flame_brightness |-> BRIGHTNESS_MIN,
     bed_brightness |-> BRIGHTNESS_MIN]

exp_res_payload_len == 7

\* decode_payload with the brightness bytes taken as they are, not as offsets
\* from BRIGHTNESS_MIN
decode_payload_raw_brightness(self, state_payload) ==
    LET on == state_payload[1] > 10 IN
    IF on /\ state_payload[1] \notin HeatMode
    THEN [state |-> [self EXCEPT !.is_powered_on = on], ret |-> "ValueError"]
    ELSE [state |->
             [is_powered_on |-> on,
              heat_mode |-> IF on THEN state_payload[1] ELSE OFF,
              thermostat |-> clamp(state_payload[3] + 16, THERMOSTAT_MIN, THERMOSTAT_MAX),
              flame_brightness |-> clamp(state_payload[4], BRIGHTNESS_MIN, BRIGHTNESS_MAX),
              bed_brightness |-> clamp(state_payload[5], BRIGHTNESS_MIN, BRIGHTNESS_MAX),
              flame_color |-> clamp(state_payload[6], COLOR_MIN, COLOR_MAX),
              bed_color |-> clamp(state_payload[7], COLOR_MIN, COLOR_MAX)],
          ret |-> "True"]

\* The assignments of State.update_from_bytes from a payload of seven bytes:
\* the State they leave, and "True" (the method's return value) or "ValueError"
\* (HeatMode(x) of a value that is no member of the enum raises, after
\* is_powered_on was assigned).
decode_payload(self, state_payload) ==
    LET on == state_payload[1] > 10 IN
    IF on /\ state_payload[1] \notin HeatMode
    THEN [state |-> [self EXCEPT !.is_powered_on = on], ret |-> "ValueError"]
    ELSE [state |->
             [is_powered_on |-> on,
              heat_mode |-> IF on THEN state_payload[1] ELSE OFF,
              thermostat |-> clamp(state_payload[3] + 16, THERMOSTAT_MIN, THERMOSTAT_MAX),
              flame_brightness |-> clamp(1 + state_payload[4], BRIGHTNESS_MIN, BRIGHTNESS_MAX),
              bed_brightness |-> clamp(1 + state_payload[5], BRIGHTNESS_MIN, BRIGHTNESS_MAX),
              flame_color |-> clamp(state_payload[6], COLOR_MIN, COLOR_MAX),
              bed_color |-> clamp(state_payload[7], COLOR_MIN, COLOR_MAX)],
          ret |-> "True"]

\* update_from_bytes without the test of the first byte
update_from_bytes_any_marker(self, data) ==
    IF Len(data) < 2
    THEN [state |-> self, ret |-> "False"]
    ELSE LET state_payload == SubSeq(data, 3, Len(data)) IN
         IF Len(state_payload) # exp_res_payload_len
         THEN [state |-> self, ret |-> "False"]
         ELSE decode_payload(self, state_payload)

\* update_from_bytes with the payload taken from the length byte on
update_from_bytes_payload_after_marker(self, data) ==
    IF Len(data) < 2 \/ data[1] # 32
    THEN [state |-> self, ret |-> "False"]
    ELSE LET state_payload == SubSeq(data, 2, Len(data)) IN
         IF Len(state_payload) # exp_res_payload_len
         THEN [state |-> self, ret |-> "False"]
         ELSE decode_payload(self, state_payload)

\* State.update_from_bytes: the State after the call and what the call did:
\* "True" / "False" (its return value) or "ValueError".
update_from_bytes(self, data) ==
    IF Len(data) < 2 \/ data[1] # 32
    THEN [state |-> self, ret |-> "False"]
    ELSE LET state_payload == SubSeq(data, 3, Len(data)) IN
         IF Len(state_payload) # exp_res_payload_len
         THEN [state |-> self, ret |-> "False"]
         ELSE decode_payload(self, state_payload)

\* State.set_thermostat storing its argument as it is
State_set_thermostat_unclamped(self, temperature_celsius) ==
    [self EXCEPT !.thermostat = temperature_celsius]

State_set_thermostat(self, temperature_celsius) ==
    [self EXCEPT !.thermostat = clamp(temperature_celsius, THERMOSTAT_MIN, THERMOSTAT_MAX)]

State_set_bed_brightness(self, brightness) ==
    [self EXCEPT !.bed_brightness = clamp(brightness, BRIGHTNESS_MIN, BRIGHTNESS_MAX)]

State_set_flame_brightness(self, brightness) ==
    [self EXCEPT !.flame_brightness = clamp(brightness, BRIGHTNESS_MIN, BRIGHTNESS_MAX)]

----------------------------------------------------------------------------
(* Bounds of the inputs *)

ThermostatSpan == 1     \* set_thermostat arguments: 15 .. 16 + ThermostatSpan, 31, 32
BrightnessSpan == 2     \* brightness arguments: 0 .. 1 + BrightnessSpan, 10, 11
MaxFaultAt == 2         \* the link is lost at the 1st .. MaxFaultAt-th write of a call

ThermostatArgs ==
    ((THERMOSTAT_MIN - 1)..(THERMOSTAT_MIN + ThermostatSpan))
        \cup {THERMOSTAT_MAX, THERMOSTAT_MAX + 1}

BrightnessArgs ==
    ((BRIGHTNESS_MIN - 1)..(BRIGHTNESS_MIN + BrightnessSpan))
        \cup {BRIGHTNESS_MAX, BRIGHTNESS_MAX + 1}

\* Color.ORANGE_0 and Color.FLOW_ORANGE_ONLY
ColorArgs == {COLOR_MIN, COLOR_MAX}

\* What the transport does to the writes of one call: it acknowledges them all
\* (NoFault), or the link is lost when the k-th is due: the transport reports the
\* disconnection and that write raises BleakError.
NoFault == 0
Faults == {NoFault} \cup (1..MaxFaultAt)

NumCallers == 2         \* the coroutines that call connect() and disconnect()

Callers == 1..NumCallers

\* What a connect attempt meets: success, establish_connection raising BleakError,
\* or a read_gatt_char / start_notify raising BleakError on the new connection.
ConnectOutcomes == {"ok", "establish_fails", "setup_fails"}

----------------------------------------------------------------------------
(* device.py: connection *)

\* Device.connect with the connection lock free: the session's connection fields
\* after the attempt.
connect(conn, outcome) ==
    IF conn.is_connected THEN conn
    ELSE IF outcome = "ok" THEN [is_connected |-> TRUE, link |-> "up"]
    ELSE IF outcome = "establish_fails" THEN [is_connected |-> FALSE, link |-> conn.link]
    ELSE [is_connected |-> FALSE, link |-> "up"]

\* disconnected_callback that leaves the flag as it is
disconnected_callback_keeps_flag(conn) == [conn EXCEPT !.link = "down"]

\* Device.disconnected_callback
disconnected_callback(conn) == [is_connected |-> FALSE, link |-> "down"]

\* Device._send_cmd for each command of cmds in turn, until one raises:
\* self._connection does not exist (AttributeError, nothing is written), the
\* client is not connected (the first write raises), or the fault hits.
send_cmds(cmds, conn, fault) ==
    IF cmds = <<>> THEN [written |-> <<>>, ret |-> "ok", conn |-> conn]
    ELSE IF conn.link = "unset" THEN [written |-> <<>>, ret |-> "AttributeError", conn |-> conn]
    ELSE IF conn.link = "down" THEN [written |-> <<cmds[1]>>, ret |-> "BleakError", conn |-> conn]
    ELSE IF fault \in 1..Len(cmds)
         THEN [written |-> SubSeq(cmds, 1, fault), ret |-> "BleakError",
               conn |-> disconnected_callback(conn)]
    ELSE [written |-> cmds, ret |-> "ok", conn |-> conn]

----------------------------------------------------------------------------
(* device.py: what each setter does under the state lock: the State it leaves
   and the commands it goes on to send, in order *)

\* set_powered_on without the comparison with the old value
set_powered_on_always_toggles(self, value) ==
    [state |-> [self EXCEPT !.is_powered_on = value], cmds |-> <<POWER_TOGGLE>>]

set_powered_on(self, value) ==
    LET old_value == self.is_powered_on IN
    [state |-> [self EXCEPT !.is_powered_on = value],
     cmds |-> IF old_value = value THEN <<>> ELSE <<POWER_TOGGLE>>]

\* heat_steps as the comment above it in set_heat_mode has it: high -> low
\* sends SET_HEAT_LOW
heat_steps_as_commented(old_value, mode) ==
    IF old_value = OFF THEN
        IF mode = LOW THEN <<SET_HEAT_LOW>>
        ELSE IF mode = HIGH THEN <<SET_HEAT_LOW, SET_HEAT_HIGH>>
        ELSE <<>>
    ELSE IF old_value = LOW THEN
        IF mode = OFF THEN <<SET_HEAT_LOW>>
        ELSE IF mode = HIGH THEN <<SET_HEAT_HIGH>>
        ELSE <<>>
    ELSE IF old_value = HIGH THEN
        IF mode = LOW THEN <<SET_HEAT_LOW>>
        ELSE IF mode = OFF THEN <<SET_HEAT_HIGH, SET_HEAT_LOW>>
        ELSE <<>>
    ELSE <<>>

\* The if / elif chain of set_heat_mode: the commands from old_value to mode
heat_steps(old_value, mode) ==
    IF old_value = OFF THEN
        IF mode = LOW THEN <<SET_HEAT_LOW>>
        ELSE IF mode = HIGH THEN <<SET_HEAT_LOW, SET_HEAT_HIGH>>
        ELSE <<>>
    ELSE IF old_value = LOW THEN
        IF mode = OFF THEN <<SET_HEAT_LOW>>
        ELSE IF mode = HIGH THEN <<SET_HEAT_HIGH>>
        ELSE <<>>
    ELSE IF old_value = HIGH THEN
        IF mode = LOW THEN <<SET_HEAT_HIGH>>
        ELSE IF mode = OFF THEN <<SET_HEAT_HIGH, SET_HEAT_LOW>>
        ELSE <<>>
    ELSE <<>>

\* set_heat_mode without the test of is_powered_on
set_heat_mode_unguarded(self, mode) ==
    LET old_value == self.heat_mode IN
    [state |-> [self EXCEPT !.heat_mode = mode],
     cmds |-> IF old_value = mode THEN <<>> ELSE heat_steps(old_value, mode)]

set_heat_mode(self, mode) ==
    IF ~self.is_powered_on /\ mode # OFF
    THEN [state |-> self, cmds |-> <<>>]
    ELSE LET old_value == self.heat_mode IN
         [state |-> [self EXCEPT !.heat_mode = mode],
          cmds |-> IF old_value = mode THEN <<>> ELSE heat_steps(old_value, mode)]

set_thermostat(self, temperature) ==
    LET s == State_set_thermostat(self, temperature) IN
    [state |-> s, cmds |-> <<SET_THERMOSTAT \o <<s.thermostat>>>>]

set_flame_color(self, color) ==
    [state |-> [self EXCEPT !.flame_color = color],
     cmds |-> <<SET_FLAME_COLOR \o <<color>>>>]

set_bed_color(self, color) ==
    [state |-> [self EXCEPT !.bed_color = color],
     cmds |-> <<SET_BED_COLOR \o <<color>>>>]

\* The two while loops of a brightness setter, with the cached brightness at
\* target throughout: Dec while target < old_value, then Inc while target > old_value.
RECURSIVE ramp(_, _, _, _)
ramp(target, old_value, dec, inc) ==
    IF target < old_value THEN <<dec>> \o ramp(target, old_value - 1, dec, inc)
    ELSE IF target > old_value THEN <<inc>> \o ramp(target, old_value + 1, dec, inc)
    ELSE <<>>

\* set_flame_brightness with its loops running to the requested brightness
\* instead of the clamped one
set_flame_brightness_to_request(self, brightness) ==
    LET old_value == self.flame_brightness
        s == State_set_flame_brightness(self, brightness) IN
    [state |-> s,
     cmds |-> IF old_value = brightness THEN <<>>
              ELSE ramp(brightness, old_value,
                        FLAME_BRIGHTNESS_DEC, FLAME_BRIGHTNESS_INC)]

set_flame_brightness(self, brightness) ==
    LET old_value == self.flame_brightness
        s == State_set_flame_brightness(self, brightness) IN
    [state |-> s,
     cmds |-> IF old_value = brightness THEN <<>>
              ELSE ramp(s.flame_brightness, old_value,
                        FLAME_BRIGHTNESS_DEC, FLAME_BRIGHTNESS_INC)]

set_bed_brightness(self, brightness) ==
    LET old_value == self.bed_brightness
        s == State_set_bed_brightness(self, brightness) IN
    [state |-> s,
     cmds |-> IF old_value = brightness THEN <<>>
              ELSE ramp(s.bed_brightness, old_value,
                        BED_BRIGHTNESS_DEC, BED_BRIGHTNESS_INC)]

----------------------------------------------------------------------------
(* The session driven by one caller *)

\* No coroutine is inside connect() or disconnect(); the class attribute
\* _connection_lock is a new asyncio.Lock().
Unlocked == 0

ConnInit ==
    /\ pc = [c \in Callers |-> "idle"]
    /\ connection_lock = Unlocked
    /\ subscribed = FALSE
    /\ pending_callback = FALSE
    /\ event = [op |-> "__init__", caller |-> 0, step |-> "call", raised |-> FALSE,
                ret |-> "ok"]

\* No coroutine is inside a setter or query_state; the class attributes
\* _state_lock and _state_updated are a new asyncio.Lock() and asyncio.Event().
NoCall ==
    [op |-> "none", arg |-> 0, todo |-> <<>>, old_value |-> 0, phase |-> "none",
     sent |-> <<>>, lost |-> FALSE]

NotHeard == [frame |-> <<>>, wellformed |-> FALSE, pre |-> State_init]

OpsInit ==
    /\ call = [c \in Callers |-> NoCall]
    /\ state_lock = Unlocked
    /\ state_lock_waiters = <<>>
    /\ state_updated = FALSE
    /\ heard = NotHeard

\* A BLEDevice handle: its address and the name it was advertised with.
BLEDevice(address, name) == [address |-> address, name |-> name]

\* No detection callback has run.
NoDevice == BLEDevice(0, <<>>)

NumSessions == 2        \* the Device instances, each for a device of its own

Sessions == 1..NumSessions

\* A Device as __init__ leaves it, and the coroutine that will call it.
NewSession ==
    [state |-> State_init, is_connected |-> FALSE, link |-> "unset",
     subscribed |-> FALSE, pc |-> "idle", call |-> NoCall, heard |-> NotHeard]

NoSessions == sessions = [d \in Sessions |-> NewSession]

\* scan_for_nitraflame_devices has not been called.
NoScan ==
    /\ max_devices = -1
    /\ device_list = <<>>
    /\ scan_done = FALSE
    /\ scan_pc = "none"
    /\ detected = NoDevice

Init ==
    /\ state = State_init
    /\ is_connected = FALSE
    /\ link = "unset"
    /\ written = <<>>
    /\ ConnInit
    /\ OpsInit
    /\ NoScan
    /\ NoSessions
    /\ last = [op |-> "__init__", arg |-> 0, pre |-> State_init, ret |-> "ok", after |-> "none"]

\* Nothing is running: the caller may make its next call and the transport may
\* deliver its next callback.
idle == last.op \in {"__init__", "idle"}

\* One setter call, from its first line to its return or raise: the implicit
\* connect(retry_attempts=1) when the session is not connected, then, under the
\* state lock, the change r.state of the cached State and the writes of r.cmds.
Run(op, arg, r, after) ==
    \E outcome \in ConnectOutcomes, fault \in Faults :
        LET c == connect([is_connected |-> is_connected, link |-> link], outcome)
            t == send_cmds(r.cmds, c, fault)
        IN  /\ is_connected => outcome = "ok"
            /\ fault # NoFault => c.link = "up" /\ fault <= Len(r.cmds)
            /\ state' = r.state
            /\ is_connected' = t.conn.is_connected
            /\ link' = t.conn.link
            /\ written' = t.written
            /\ last' = [op |-> op, arg |-> arg, pre |-> state, ret |-> t.ret,
                        after |-> after]
            /\ UNCHANGED <<conn_vars, ops_vars, scan_vars, sessions>>

\* A call the caller makes when nothing is running.
Call(op, arg, r) == idle /\ Run(op, arg, r, "none")

SetPoweredOn ==
    \E value \in BOOLEAN : Call("set_powered_on", value, set_powered_on(state, value))

SetHeatMode ==
    \E mode \in HeatMode : Call("set_heat_mode", mode, set_heat_mode(state, mode))

SetThermostat ==
    \E temperature \in ThermostatArgs :
        Call("set_thermostat", temperature, set_thermostat(state, temperature))

SetFlameColor ==
    \E color \in ColorArgs : Call("set_flame_color", color, set_flame_color(state, color))

SetBedColor ==
    \E color \in ColorArgs : Call("set_bed_color", color, set_bed_color(state, color))

SetFlameBrightness ==
    \E brightness \in BrightnessArgs :
        Call("set_flame_brightness", brightness, set_flame_brightness(state, brightness))

SetBedBrightness ==
    \E brightness \in BrightnessArgs :
        Call("set_bed_brightness", brightness, set_bed_brightness(state, brightness))

Setters ==
    {"set_powered_on", "set_heat_mode", "set_thermostat", "set_flame_color",
     "set_bed_color", "set_flame_brightness", "set_bed_brightness"}

\* The setter named op
setter(op, self, arg) ==
    CASE op = "set_powered_on" -> set_powered_on(self, arg)
      [] op = "set_heat_mode" -> set_heat_mode(self, arg)
      [] op = "set_thermostat" -> set_thermostat(self, arg)
      [] op = "set_flame_color" -> set_flame_color(self, arg)
      [] op = "set_bed_color" -> set_bed_color(self, arg)
      [] op = "set_flame_brightness" -> set_flame_brightness(self, arg)
      [] op = "set_bed_brightness" -> set_bed_brightness(self, arg)

\* The caller makes the call it has just made once more, with the same
\* argument, as soon as the first has returned or raised.
CallAgain ==
    /\ last.op \in Setters
    /\ last.after = "none"
    /\ Run(last.op, last.arg, setter(last.op, state, last.arg), last.ret)

\* Device.connect called by the caller
Connect ==
    \E outcome \in ConnectOutcomes :
        LET c == connect([is_connected |-> is_connected, link |-> link], outcome)
        IN  /\ idle
            /\ is_connected => outcome = "ok"
            /\ is_connected' = c.is_connected
            /\ link' = c.link
            /\ written' = <<>>
            /\ last' = [op |-> "connect", arg |-> outcome, pre |-> state, ret |-> "ok",
                        after |-> "none"]
            /\ UNCHANGED <<state, conn_vars, ops_vars, scan_vars, sessions>>

\* The transport reports that the connection was lost.
LinkDrop ==
    /\ idle
    /\ link = "up"
    /\ LET c == disconnected_callback([is_connected |-> is_connected, link |-> link])
       IN  /\ is_connected' = c.is_connected
           /\ link' = c.link
    /\ written' = <<>>
    /\ last' = [op |-> "disconnected_callback", arg |-> 0, pre |-> state, ret |-> "ok",
                after |-> "none"]
    /\ UNCHANGED <<state, conn_vars, ops_vars, scan_vars, sessions>>

\* A status frame as the device sends it.
Frame(code, thermostat, flame_brightness, bed_brightness, flame_color, bed_color) ==
    <<32, 7, code, 161, thermostat, flame_brightness, bed_brightness, flame_color, bed_color>>

\* The notifications delivered between calls: the device off, on without heat,
\* on at high heat, an unknown state code, payload bytes beyond every range,
\* and a frame that is no status frame.
NotifyFrames ==
    { Frame(code, 0, 0, 0, 0, 0) : code \in {10, 11, 13, 14} }
        \cup { Frame(13, 1, 9, 1, 24, 0), Frame(12, 255, 255, 255, 255, 255), <<32, 1, 0>> }

\* on_notify, the handler connect() subscribes: between two calls of the caller.
Notify ==
    /\ idle
    /\ is_connected
    /\ \E data \in NotifyFrames :
        LET r == update_from_bytes(state, data)
        IN  /\ state' = r.state
            /\ last' = [op |-> "on_notify", arg |-> data, pre |-> state, ret |-> r.ret,
                        after |-> "none"]
    /\ written' = <<>>
    /\ UNCHANGED <<is_connected, link, conn_vars, ops_vars, scan_vars, sessions>>

\* The call has returned or raised, or the callback has returned: the event
\* loop is idle again.
Idle ==
    /\ ~idle
    /\ last' = [op |-> "idle", arg |-> 0, pre |-> state, ret |-> "ok", after |-> "none"]
    /\ written' = <<>>
    /\ UNCHANGED <<state, is_connected, link, conn_vars, ops_vars, scan_vars, sessions>>

Next ==
    \/ SetPoweredOn
    \/ SetHeatMode
    \/ SetThermostat
    \/ SetFlameColor
    \/ SetBedColor
    \/ SetFlameBrightness
    \/ SetBedBrightness
    \/ CallAgain
    \/ Connect
    \/ LinkDrop
    \/ Notify
    \/ Idle

Spec == Init /\ [][Next]_vars

----------------------------------------------------------------------------
(* The decoder on its own *)

MaxFrameLen == 10       \* frames of 0 .. MaxFrameLen bytes

\* Nine-byte frames: a right and a wrong marker, a right and a wrong length
\* byte, state codes below, at and above the HeatMode values, and payload
\* bytes at and beyond the ends of each field's range.
FullFrames ==
    { <<marker, len, code, unused, thermostat, flame_brightness, bed_brightness,
        flame_color, bed_color>> :
        marker \in {32, 33}, len \in {7, 6}, code \in {0, 10, 11, 12, 13, 14, 255},
        unused \in {161, 0},
        thermostat \in {0, 15, 16}, flame_brightness \in {0, 9, 10},
        bed_brightness \in {0, 5, 255}, flame_color \in {0, 24, 25},
        bed_color \in {0, 12, 255} }

\* The first n bytes of frame f, padded with zero bytes when it is shorter.
Resize(f, n) ==
    IF n <= Len(f) THEN SubSeq(f, 1, n) ELSE f \o [i \in 1..(n - Len(f)) |-> 0]

\* The status frame of tests/test_device.py, and every frame that differs from
\* it in one byte after the marker: each byte takes each of its 256 values.
QueryStateFrame == <<32, 7, 12, 161, 0, 9, 9, 0, 24>>

ByteSweep ==
    { [QueryStateFrame EXCEPT ![i] = b] : i \in 2..Len(QueryStateFrame), b \in 0..255 }

\* The values of (is_powered_on, heat_mode): the heat is OFF when the power is.
PowerHeat == { <<FALSE, OFF>> } \cup { <<TRUE, heat_mode>> : heat_mode \in HeatMode }

\* (thermostat, flame_brightness, bed_brightness, flame_color, bed_color) in
\* range: one field takes each value of its range, the others the ends of theirs.
InRangeFields ==
    LET T == {THERMOSTAT_MIN, THERMOSTAT_MAX}
        B == {BRIGHTNESS_MIN, BRIGHTNESS_MAX}
        C == {COLOR_MIN, COLOR_MAX}
    IN  ((THERMOSTAT_MIN..THERMOSTAT_MAX) \X B \X B \X C \X C)
        \cup (T \X (BRIGHTNESS_MIN..BRIGHTNESS_MAX) \X B \X C \X C)
        \cup (T \X B \X (BRIGHTNESS_MIN..BRIGHTNESS_MAX) \X C \X C)
        \cup (T \X B \X B \X Color \X C)
        \cup (T \X B \X B \X C \X Color)

InRangeStates ==
    { [is_powered_on |-> ph[1], heat_mode |-> ph[2], thermostat |-> f[1],
       flame_brightness |-> f[2], bed_brightness |-> f[3],
       flame_color |-> f[4], bed_color |-> f[5]] :
        ph \in PowerHeat, f \in InRangeFields }

\* The status frame that reports the State s, with unused as its fourth byte.
StatusFrame(s, unused) ==
    <<32, 7, IF s.is_powered_on THEN s.heat_mode ELSE 10, unused,
      s.thermostat - THERMOSTAT_MIN, s.flame_brightness - BRIGHTNESS_MIN,
      s.bed_brightness - BRIGHTNESS_MIN, s.flame_color, s.bed_color>>

StatusFrames == { StatusFrame(s, unused) : s \in InRangeStates, unused \in {161, 0} }

CodecFrames == { Resize(f, n) : f \in FullFrames, n \in 0..MaxFrameLen }

\* The State a frame meets: a new State(), or one a status frame has overwritten.
CodecPriors ==
    { State_init, update_from_bytes(State_init, Frame(13, 15, 9, 9, 24, 24)).state }

InitCodec ==
    /\ state \in CodecPriors
    /\ is_connected = TRUE
    /\ link = "up"
    /\ written = <<>>
    /\ last = [op |-> "idle", arg |-> 0, pre |-> state, ret |-> "ok", after |-> "none"]
    /\ ConnInit
    /\ OpsInit
    /\ NoScan
    /\ NoSessions

UpdateFromBytes ==
    /\ idle
    /\ \E frames \in {CodecFrames, ByteSweep, StatusFrames} : \E data \in frames :
        LET r == update_from_bytes(state, data)
        IN  /\ state' = r.state
            /\ last' = [op |-> "update_from_bytes", arg |-> data, pre |-> state,
                        ret |-> r.ret, after |-> "none"]
    /\ UNCHANGED <<is_connected, link, written, conn_vars, ops_vars, scan_vars, sessions>>

NextCodec == UpdateFromBytes

SpecCodec == InitCodec /\ [][NextCodec]_vars

----------------------------------------------------------------------------
(* connect() and disconnect(), await by await *)

\* The awaits of connect() under the connection lock, in order.
ConnectAwaits ==
    <<"establish_connection", "read_model_number", "read_serial_number",
      "read_manufacturer", "start_notify">>

AfterAwait(step) ==
    IF step = ConnectAwaits[Len(ConnectAwaits)] THEN "idle"
    ELSE ConnectAwaits[1 + CHOOSE i \in 1..Len(ConnectAwaits) : ConnectAwaits[i] = step]

\* connect() that tests the flag only
connect_returns_if_connected(connected, lock) == connected

\* The test connect() starts with: it returns at once when it holds.
connect_returns_at_once(connected, lock) == connected \/ lock # Unlocked

\* connect() whose handler of BleakError leaves the flag as it is
connect_resume_keeps_flag(self, step, raised) ==
    IF raised
    THEN [conn |-> self, pc |-> "idle"]
    ELSE IF step = "establish_connection"
    THEN [conn |-> [is_connected |-> TRUE, link |-> "up", subscribed |-> FALSE],
          pc |-> AfterAwait(step)]
    ELSE IF step = "start_notify"
    THEN [conn |-> [self EXCEPT !.subscribed = TRUE], pc |-> AfterAwait(step)]
    ELSE [conn |-> self, pc |-> AfterAwait(step)]

\* connect() from the return (or the BleakError) of the await step to its next
\* await or its end: the session's connection fields, and where the coroutine
\* is then ("idle": connect() has returned and released the connection lock).
connect_resume(self, step, raised) ==
    IF raised
    THEN [conn |-> [self EXCEPT !.is_connected = FALSE], pc |-> "idle"]
    ELSE IF step = "establish_connection"
    THEN [conn |-> [is_connected |-> TRUE, link |-> "up", subscribed |-> FALSE],
          pc |-> AfterAwait(step)]
    ELSE IF step = "start_notify"
    THEN [conn |-> [self EXCEPT !.subscribed = TRUE], pc |-> AfterAwait(step)]
    ELSE [conn |-> self, pc |-> AfterAwait(step)]

Step(op, c, step, raised, ret) ==
    [op |-> op, caller |-> c, step |-> step, raised |-> raised, ret |-> ret]

\* Coroutine c calls connect(): up to the first await, or the early return. A
\* coroutine that passes the test while the lock is held queues for the lock.
ConnectCall(c) ==
    /\ pc[c] = "idle"
    /\ IF connect_returns_at_once(is_connected, connection_lock)
       THEN /\ event' = Step("connect", c, "call", FALSE, "ok")
            /\ UNCHANGED <<pc, connection_lock>>
       ELSE /\ event' = Step("connect", c, "call", FALSE, "awaiting")
            /\ IF connection_lock = Unlocked
               THEN /\ connection_lock' = c
                    /\ pc' = [pc EXCEPT ![c] = ConnectAwaits[1]]
               ELSE /\ pc' = [pc EXCEPT ![c] = "acquire"]
                    /\ UNCHANGED connection_lock
    /\ UNCHANGED <<is_connected, link, subscribed, pending_callback>>
    /\ UNCHANGED <<state, written, last, ops_vars, scan_vars, sessions>>

\* An await of connect() ends for coroutine c: it returns, or it raises
\* BleakError, as every operation on a BleakClient that is not open does.
ConnectResume(c) ==
    /\ pc[c] \in { ConnectAwaits[i] : i \in 1..Len(ConnectAwaits) }
    /\ \E raised \in BOOLEAN :
        LET r == connect_resume([is_connected |-> is_connected, link |-> link,
                                 subscribed |-> subscribed], pc[c], raised)
        IN  /\ (pc[c] # "establish_connection" /\ link # "up") => raised
            /\ is_connected' = r.conn.is_connected
            /\ link' = r.conn.link
            /\ subscribed' = r.conn.subscribed
            /\ pc' = [pc EXCEPT ![c] = r.pc]
            /\ connection_lock' = IF r.pc = "idle" THEN Unlocked ELSE connection_lock
            /\ event' = Step("connect", c, pc[c], raised,
                             IF r.pc = "idle" THEN "ok" ELSE "awaiting")
    /\ UNCHANGED pending_callback
    /\ UNCHANGED <<state, written, last, ops_vars, scan_vars, sessions>>

\* Coroutine c calls disconnect(): the early return, or up to the await of
\* self._connection.disconnect().
DisconnectCall(c) ==
    /\ pc[c] = "idle"
    /\ IF ~is_connected
       THEN /\ event' = Step("disconnect", c, "call", FALSE, "ok")
            /\ UNCHANGED pc
       ELSE /\ event' = Step("disconnect", c, "call", FALSE, "awaiting")
            /\ pc' = [pc EXCEPT ![c] = "disconnect"]
    /\ UNCHANGED <<is_connected, link, connection_lock, subscribed, pending_callback>>
    /\ UNCHANGED <<state, written, last, ops_vars, scan_vars, sessions>>

\* BleakClient.disconnect() returns to coroutine c, and disconnect() with it:
\* the client is closed. A client that was open calls disconnected_callback,
\* before this return (in_time) or at some later point.
DisconnectResume(c) ==
    /\ pc[c] = "disconnect"
    /\ \E in_time \in BOOLEAN :
        LET called == link = "up" /\ in_time
            d == disconnected_callback([is_connected |-> is_connected, link |-> link])
        IN  /\ is_connected' = IF called THEN d.is_connected ELSE is_connected
            /\ pending_callback' = IF link = "up" /\ ~in_time THEN TRUE ELSE pending_callback
    /\ link' = "down"
    /\ subscribed' = FALSE
    /\ pc' = [pc EXCEPT ![c] = "idle"]
    /\ event' = Step("disconnect", c, "disconnect", FALSE, "ok")
    /\ UNCHANGED connection_lock
    /\ UNCHANGED <<state, written, last, ops_vars, scan_vars, sessions>>

\* The client that disconnect() closed calls disconnected_callback.
LateCallback ==
    /\ pending_callback
    /\ is_connected' = disconnected_callback([is_connected |-> is_connected,
                                               link |-> link]).is_connected
    /\ pending_callback' = FALSE
    /\ event' = Step("disconnected_callback", 0, "call", FALSE, "ok")
    /\ UNCHANGED <<link, pc, connection_lock, subscribed>>
    /\ UNCHANGED <<state, written, last, ops_vars, scan_vars, sessions>>

\* The link is lost: the open client calls disconnected_callback.
ConnectionLost ==
    /\ link = "up"
    /\ LET d == disconnected_callback([is_connected |-> is_connected, link |-> link])
       IN  /\ is_connected' = d.is_connected
           /\ link' = d.link
    /\ subscribed' = FALSE
    /\ event' = Step("disconnected_callback", 0, "call", FALSE, "ok")
    /\ UNCHANGED <<pc, connection_lock, pending_callback>>
    /\ UNCHANGED <<state, written, last, ops_vars, scan_vars, sessions>>

NextConn ==
    \/ \E c \in Callers : ConnectCall(c)
    \/ \E c \in Callers : ConnectResume(c)
    \/ \E c \in Callers : DisconnectCall(c)
    \/ \E c \in Callers : DisconnectResume(c)
    \/ LateCallback
    \/ ConnectionLost

SpecConn == Init /\ [][NextConn]_vars

----------------------------------------------------------------------------
(* The setters and query_state, await by await *)

\* The calls the coroutines make: query_state, set_heat_mode(OFF) (two
\* commands when the heat is HIGH), set_flame_brightness (a ramp of
\* BrightnessSpan commands up from BRIGHTNESS_MIN).
OpsCalls ==
    { <<"query_state", 0>>, <<"set_heat_mode", OFF>>,
      <<"set_flame_brightness", BRIGHTNESS_MIN + BrightnessSpan>> }

\* The notifications the device sends: off; on at high heat with the flame
\* brightness two above the one the coroutines set; an unknown state code; a
\* frame that is no status frame.
OpsFrames ==
    { Frame(10, 0, 0, 0, 0, 0), Frame(13, 0, BrightnessSpan + 2, 0, 0, 0),
      Frame(14, 0, 0, 0, 0, 0), <<32, 1, 0>> }

\* The session as coroutine c sees it while it runs, between two awaits: the
\* fields of the Device, c's own position and call, and ret: "awaiting" (c is
\* suspended), "ok" (its method has returned) or the exception it has raised.
World(c) ==
    [state |-> state, is_connected |-> is_connected, link |-> link,
     subscribed |-> subscribed, connection_lock |-> connection_lock,
     state_lock |-> state_lock, state_lock_waiters |-> state_lock_waiters,
     state_updated |-> state_updated, heard |-> heard,
     pc |-> pc[c], call |-> call[c], ret |-> "awaiting"]

\* A return that leaves the state lock held
leave_holding_lock(w, c, ret) ==
    [w EXCEPT !.heard = IF w.call.op = "query_state" THEN NotHeard ELSE @,
              !.call = NoCall, !.pc = "idle", !.ret = ret]

\* The method the coroutine is in returns (ret = "ok") or raises: the
\* async with releases the state lock the coroutine holds.
leave(w, c, ret) ==
    [w EXCEPT !.state_lock = IF @ = c THEN Unlocked ELSE @,
              !.heard = IF w.call.op = "query_state" THEN NotHeard ELSE @,
              !.call = NoCall, !.pc = "idle", !.ret = ret]

\* _send_cmd(cmd): the attribute _connection does not exist (AttributeError),
\* or the coroutine awaits write_gatt_char.
send_cmd(w, c, cmd) ==
    IF w.link = "unset" THEN leave(w, c, "AttributeError")
    ELSE [w EXCEPT !.call.sent = Append(@, cmd), !.pc = "write", !.ret = "awaiting"]

\* The cached brightness a brightness setter works on.
brightness_of(op, self) ==
    IF op = "set_flame_brightness" THEN self.flame_brightness ELSE self.bed_brightness

brightness_cmd(op, phase) ==
    IF op = "set_flame_brightness"
    THEN IF phase = "dec" THEN FLAME_BRIGHTNESS_DEC ELSE FLAME_BRIGHTNESS_INC
    ELSE IF phase = "dec" THEN BED_BRIGHTNESS_DEC ELSE BED_BRIGHTNESS_INC

\* The two while loops of a brightness setter, from the test of the loop the
\* coroutine is in (phase): each compares the cached brightness as it is now
\* with the local old_value.
ramp_loops(w, c) ==
    LET now == brightness_of(w.call.op, w.state) IN
    IF w.call.phase = "dec" /\ now < w.call.old_value
    THEN send_cmd(w, c, brightness_cmd(w.call.op, "dec"))
    ELSE IF now > w.call.old_value
    THEN send_cmd([w EXCEPT !.call.phase = "inc"], c, brightness_cmd(w.call.op, "inc"))
    ELSE leave(w, c, "ok")

\* The body of the method under the state lock, up to its first await or its
\* return.
body(w, c) ==
    LET op == w.call.op IN
    IF op = "query_state"
    THEN send_cmd([w EXCEPT !.state_updated = FALSE,
                            !.heard = [frame |-> <<>>, wellformed |-> FALSE,
                                       pre |-> w.state]],
                  c, QUERY_STATE)
    ELSE IF op \in {"set_flame_brightness", "set_bed_brightness"}
    THEN LET old_value == brightness_of(op, w.state)
             s == setter(op, w.state, w.call.arg).state
         IN  IF old_value = w.call.arg
             THEN leave([w EXCEPT !.state = s], c, "ok")
             ELSE ramp_loops([w EXCEPT !.state = s, !.call.old_value = old_value,
                                       !.call.phase = "dec"], c)
    ELSE LET r == setter(op, w.state, w.call.arg) IN
         IF r.cmds = <<>>
         THEN leave([w EXCEPT !.state = r.state], c, "ok")
         ELSE send_cmd([w EXCEPT !.state = r.state, !.call.todo = Tail(r.cmds)],
                       c, Head(r.cmds))

\* A method body that runs without waiting for the state lock
enter_at_once(w, c) == body([w EXCEPT !.state_lock = c], c)

\* async with self._state_lock: a free lock that no coroutine is waiting for
\* is taken without suspending; otherwise the coroutine joins the waiters.
enter(w, c) ==
    IF w.state_lock = Unlocked /\ w.state_lock_waiters = <<>>
    THEN body([w EXCEPT !.state_lock = c], c)
    ELSE [w EXCEPT !.state_lock_waiters = Append(@, c),
                   !.pc = "state_lock", !.ret = "awaiting"]

\* The first waiter is woken with the lock free: it takes the lock and runs
\* the body.
acquired(w, c) ==
    body([w EXCEPT !.state_lock = c, !.state_lock_waiters = Tail(@)], c)

\* A setter or query_state that does not connect
begin_without_connect(w, c) == enter(w, c)

\* The first lines of every setter and of query_state: connect(retry_attempts=1)
\* when the session is not connected, then the state lock.
begin(w, c) ==
    IF w.is_connected \/ connect_returns_at_once(w.is_connected, w.connection_lock)
    THEN enter(w, c)
    ELSE IF w.connection_lock = Unlocked
    THEN [w EXCEPT !.connection_lock = c, !.pc = ConnectAwaits[1], !.ret = "awaiting"]
    ELSE [w EXCEPT !.pc = "acquire", !.ret = "awaiting"]

\* write_gatt_char has raised BleakError and the method catches it
write_raised_and_caught(w, c) ==
    IF w.call.todo = <<>> THEN leave(w, c, "ok")
    ELSE [w EXCEPT !.call.todo = Tail(@), !.call.sent = Append(@, Head(w.call.todo)),
                   !.pc = "write", !.ret = "awaiting"]

\* write_gatt_char has raised BleakError: neither _send_cmd nor the method
\* catches it.
write_raised(w, c) == leave(w, c, "BleakError")

\* A method that never gets past its write
after_write_suspends(w, c) == [w EXCEPT !.pc = "suspended", !.ret = "awaiting"]

\* The coroutine runs on after write_gatt_char has returned.
after_write(w, c) ==
    IF w.call.op = "query_state"
    THEN [w EXCEPT !.pc = "wait", !.ret = "awaiting"]
    ELSE IF w.call.op \in {"set_flame_brightness", "set_bed_brightness"}
    THEN ramp_loops([w EXCEPT !.call.old_value =
                                 IF w.call.phase = "dec" THEN @ - 1 ELSE @ + 1], c)
    ELSE IF w.call.todo = <<>>
    THEN leave(w, c, "ok")
    ELSE send_cmd([w EXCEPT !.call.todo = Tail(@)], c, Head(w.call.todo))

\* Coroutine c has run from the world it found to w: the new values of the
\* variables, and the step as the last event.
Ran(c, w, op, step, raised) ==
    /\ state' = w.state
    /\ is_connected' = w.is_connected
    /\ link' = w.link
    /\ subscribed' = w.subscribed
    /\ connection_lock' = w.connection_lock
    /\ state_lock' = w.state_lock
    /\ state_lock_waiters' = w.state_lock_waiters
    /\ state_updated' = w.state_updated
    /\ heard' = w.heard
    /\ pc' = [pc EXCEPT ![c] = w.pc]
    /\ call' = [call EXCEPT ![c] = w.call]
    /\ event' = Step(op, c, step, raised, w.ret)
    /\ UNCHANGED <<pending_callback, written, last, scan_vars, sessions>>

\* Coroutine c calls a setter or query_state.
OpCall(c) ==
    /\ pc[c] = "idle"
    /\ \E oa \in OpsCalls :
        Ran(c, begin([World(c) EXCEPT !.call.op = oa[1], !.call.arg = oa[2]], c),
            oa[1], "call", FALSE)

\* An await of the connect() that c's method has called ends; when connect()
\* returns, the method goes on to the state lock.
OpConnectResume(c) ==
    /\ pc[c] \in { ConnectAwaits[i] : i \in 1..Len(ConnectAwaits) }
    /\ \E raised \in BOOLEAN :
        LET r == connect_resume([is_connected |-> is_connected, link |-> link,
                                 subscribed |-> subscribed], pc[c], raised)
            w == [World(c) EXCEPT !.is_connected = r.conn.is_connected,
                                  !.link = r.conn.link,
                                  !.subscribed = r.conn.subscribed,
                                  !.pc = r.pc]
        IN  /\ (pc[c] # "establish_connection" /\ link # "up") => raised
            /\ Ran(c, IF r.pc = "idle"
                      THEN enter([w EXCEPT !.connection_lock = Unlocked], c)
                      ELSE w,
                   call[c].op, pc[c], raised)

\* The state lock is free and is given to c, the first of its waiters.
StateLockAcquired(c) ==
    /\ pc[c] = "state_lock"
    /\ state_lock = Unlocked
    /\ Head(state_lock_waiters) = c
    /\ Ran(c, acquired(World(c), c), call[c].op, "state_lock", FALSE)

\* write_gatt_char returns to c, or raises BleakError, as it does on a client
\* that is not open: the exception leaves the method.
WriteResume(c) ==
    /\ pc[c] = "write"
    /\ \E raised \in BOOLEAN :
        /\ (link # "up" \/ call[c].lost) => raised
        /\ Ran(c, IF raised THEN write_raised(World(c), c)
                  ELSE after_write(World(c), c),
               call[c].op, "write", raised)

\* wait_for(_state_updated.wait()) returns to c: the event is set.
WaitResume(c) ==
    /\ pc[c] = "wait"
    /\ state_updated
    /\ Ran(c, leave(World(c), c, "ok"), call[c].op, "wait", FALSE)

\* A wait for the signal with no timeout
WaitWithoutTimeout(c) == pc[c] = "wait" /\ FALSE /\ UNCHANGED vars

\* wait_for raises asyncio.TimeoutError in c: the event was not set in time.
\* query_state catches it.
WaitTimeout(c) ==
    /\ pc[c] = "wait"
    /\ ~state_updated
    /\ Ran(c, leave(World(c), c, "ok"), call[c].op, "wait", TRUE)

\* The query_state that has cleared _state_updated and has not returned.
Querying == state_lock # Unlocked /\ call[state_lock].op = "query_state"

\* on_notify, the handler connect() has subscribed, is called with a frame.
OnNotify ==
    /\ subscribed
    /\ link = "up"
    /\ \E data \in OpsFrames :
        LET r == update_from_bytes(state, data)
        IN  /\ state' = r.state
            /\ state_updated' = IF r.ret = "True" THEN TRUE ELSE state_updated
            /\ heard' = IF Querying
                        THEN [frame |-> IF r.ret = "True" THEN data ELSE heard.frame,
                              wellformed |-> heard.wellformed \/ r.ret # "False",
                              pre |-> heard.pre]
                        ELSE heard
            /\ event' = Step("on_notify", 0, "call", r.ret = "ValueError", r.ret)
    /\ UNCHANGED <<is_connected, link, pc, connection_lock, subscribed, pending_callback>>
    /\ UNCHANGED <<call, state_lock, state_lock_waiters, written, last, scan_vars>>
    /\ UNCHANGED sessions

\* The link is lost: the open client calls disconnected_callback, and the
\* write_gatt_char calls that are pending on it will raise.
OpsConnectionLost ==
    /\ link = "up"
    /\ LET d == disconnected_callback([is_connected |-> is_connected, link |-> link])
       IN  /\ is_connected' = d.is_connected
           /\ link' = d.link
    /\ subscribed' = FALSE
    /\ call' = [c \in Callers |->
                   IF pc[c] = "write" THEN [call[c] EXCEPT !.lost = TRUE] ELSE call[c]]
    /\ event' = Step("disconnected_callback", 0, "call", FALSE, "ok")
    /\ UNCHANGED <<state, pc, connection_lock, pending_callback, written, last>>
    /\ UNCHANGED <<state_lock, state_lock_waiters, state_updated, heard, scan_vars>>
    /\ UNCHANGED sessions

NextOps ==
    \/ \E c \in Callers : OpCall(c)
    \/ \E c \in Callers : OpConnectResume(c)
    \/ \E c \in Callers : StateLockAcquired(c)
    \/ \E c \in Callers : WriteResume(c)
    \/ \E c \in Callers : WaitResume(c)
    \/ \E c \in Callers : WaitTimeout(c)
    \/ OnNotify
    \/ OpsConnectionLost

SpecOps == Init /\ [][NextOps]_vars

\* The await that coroutine c is suspended at ends.
Resume(c) ==
    \/ OpConnectResume(c)
    \/ StateLockAcquired(c)
    \/ WriteResume(c)
    \/ WaitResume(c)
    \/ WaitTimeout(c)

\* The session with the progress the event loop and the transport give: every
\* await of the transport returns or raises, the first waiter of a free lock
\* is woken, and wait_for returns when the signal is set and times out
\* otherwise.
\* The link is not lost once it is up (a write may still raise).
NextOpsFair ==
    \/ \E c \in Callers : OpCall(c)
    \/ \E c \in Callers : Resume(c)
    \/ OnNotify

SpecOpsFair == Init /\ [][NextOpsFair]_vars /\ \A c \in Callers : WF_vars(Resume(c))

----------------------------------------------------------------------------
(* Several Device instances: _connection_lock, _state_lock and _state_updated
   are attributes of the class Device, one object each for all instances *)

\* The instance d as the coroutine that calls it sees it between two awaits,
\* with the locks and the signal of the class.
TwoWorld(d) ==
    [state |-> sessions[d].state, is_connected |-> sessions[d].is_connected,
     link |-> sessions[d].link, subscribed |-> sessions[d].subscribed,
     connection_lock |-> connection_lock, state_lock |-> state_lock,
     state_lock_waiters |-> state_lock_waiters,
     state_updated |-> state_updated, heard |-> sessions[d].heard,
     pc |-> sessions[d].pc, call |-> sessions[d].call, ret |-> "awaiting"]

\* The coroutine of instance d has run from the world it found to w.
TwoRan(d, w, op, step, raised) ==
    /\ sessions' = [sessions EXCEPT ![d] =
                       [state |-> w.state, is_connected |-> w.is_connected,
                        link |-> w.link, subscribed |-> w.subscribed,
                        pc |-> w.pc, call |-> w.call, heard |-> w.heard]]
    /\ connection_lock' = w.connection_lock
    /\ state_lock' = w.state_lock
    /\ state_lock_waiters' = w.state_lock_waiters
    /\ state_updated' = w.state_updated
    /\ event' = Step(op, d, step, raised, w.ret)
    /\ UNCHANGED <<state, is_connected, link, written, last, pc, subscribed>>
    /\ UNCHANGED <<pending_callback, call, heard, scan_vars>>

\* connect() is called on instance d.
TwoConnectCall(d) ==
    /\ sessions[d].pc = "idle"
    /\ LET w == TwoWorld(d) IN
       IF connect_returns_at_once(w.is_connected, w.connection_lock)
       THEN TwoRan(d, [w EXCEPT !.ret = "ok"], "connect", "call", FALSE)
       ELSE TwoRan(d, [w EXCEPT !.call.op = "connect", !.connection_lock = d,
                                !.pc = ConnectAwaits[1]],
                   "connect", "call", FALSE)

\* query_state is called on instance d.
TwoQueryState(d) ==
    /\ sessions[d].pc = "idle"
    /\ TwoRan(d, begin([TwoWorld(d) EXCEPT !.call.op = "query_state"], d),
              "query_state", "call", FALSE)

\* An await of the connect() of instance d ends; a connect() called by
\* query_state returns into it.
TwoConnectResume(d) ==
    /\ sessions[d].pc \in { ConnectAwaits[i] : i \in 1..Len(ConnectAwaits) }
    /\ \E raised \in BOOLEAN :
        LET s == sessions[d]
            r == connect_resume([is_connected |-> s.is_connected, link |-> s.link,
                                 subscribed |-> s.subscribed], s.pc, raised)
            w == [TwoWorld(d) EXCEPT !.is_connected = r.conn.is_connected,
                                     !.link = r.conn.link,
                                     !.subscribed = r.conn.subscribed,
                                     !.pc = r.pc]
            u == [w EXCEPT !.connection_lock = Unlocked]
        IN  /\ (s.pc # "establish_connection" /\ s.link # "up") => raised
            /\ TwoRan(d, IF r.pc # "idle" THEN w
                         ELSE IF s.call.op = "connect"
                         THEN [u EXCEPT !.call = NoCall, !.ret = "ok"]
                         ELSE enter(u, d),
                      s.call.op, s.pc, raised)

\* The state lock is free and is given to the coroutine of instance d.
TwoStateLockAcquired(d) ==
    /\ sessions[d].pc = "state_lock"
    /\ state_lock = Unlocked
    /\ Head(state_lock_waiters) = d
    /\ TwoRan(d, acquired(TwoWorld(d), d), sessions[d].call.op, "state_lock", FALSE)

\* write_gatt_char on the client of instance d returns or raises.
TwoWriteResume(d) ==
    /\ sessions[d].pc = "write"
    /\ \E raised \in BOOLEAN :
        /\ sessions[d].link # "up" => raised
        /\ TwoRan(d, IF raised THEN write_raised(TwoWorld(d), d)
                     ELSE after_write(TwoWorld(d), d),
                  sessions[d].call.op, "write", raised)

\* wait_for(_state_updated.wait()) returns in the query_state of instance d.
TwoWaitResume(d) ==
    /\ sessions[d].pc = "wait"
    /\ state_updated
    /\ TwoRan(d, leave(TwoWorld(d), d, "ok"), "query_state", "wait", FALSE)

\* wait_for times out in the query_state of instance d.
TwoWaitTimeout(d) ==
    /\ sessions[d].pc = "wait"
    /\ ~state_updated
    /\ TwoRan(d, leave(TwoWorld(d), d, "ok"), "query_state", "wait", TRUE)

\* The on_notify of instance d is called with a frame of its device.
TwoOnNotify(d) ==
    /\ sessions[d].subscribed
    /\ sessions[d].link = "up"
    /\ \E data \in OpsFrames :
        LET s == sessions[d]
            r == update_from_bytes(s.state, data)
            querying == state_lock = d /\ s.call.op = "query_state"
        IN  /\ sessions' = [sessions EXCEPT
                    ![d].state = r.state,
                    ![d].heard =
                        IF querying
                        THEN [frame |-> IF r.ret = "True" THEN data ELSE s.heard.frame,
                              wellformed |-> s.heard.wellformed \/ r.ret # "False",
                              pre |-> s.heard.pre]
                        ELSE s.heard]
            /\ state_updated' = IF r.ret = "True" THEN TRUE ELSE state_updated
            /\ event' = Step("on_notify", d, "call", r.ret = "ValueError", r.ret)
    /\ UNCHANGED <<state, is_connected, link, written, last, pc, subscribed>>
    /\ UNCHANGED <<connection_lock, pending_callback, call, state_lock, heard, scan_vars>>
    /\ UNCHANGED state_lock_waiters

NextTwo ==
    \/ \E d \in Sessions : TwoConnectCall(d)
    \/ \E d \in Sessions : TwoQueryState(d)
    \/ \E d \in Sessions : TwoConnectResume(d)
    \/ \E d \in Sessions : TwoStateLockAcquired(d)
    \/ \E d \in Sessions : TwoWriteResume(d)
    \/ \E d \in Sessions : TwoWaitResume(d)
    \/ \E d \in Sessions : TwoWaitTimeout(d)
    \/ \E d \in Sessions : TwoOnNotify(d)

SpecTwo == Init /\ [][NextTwo]_vars

----------------------------------------------------------------------------
(* scan_for_nitraflame_devices (nitraflame_bt/scanner.py) *)

NumAddresses == 2       \* the devices in range have addresses 1 .. NumAddresses
MaxScanDevices == 2     \* max_devices is -1 or in 0 .. MaxScanDevices

Addresses == 1..NumAddresses

MaxDevicesArgs == {-1} \cup (0..MaxScanDevices)

\* Strings are sequences of characters.
DEVICE_NAME == <<"N", "I", "T", "R", "A", "F", "l", "a", "m", "e">>

\* The advertised local names: the device name, a name that contains it, a
\* name that does not, and none (local_name or "" is the empty string).
LocalNames ==
    { DEVICE_NAME, DEVICE_NAME \o <<"-", "2">>, <<"F", "l", "a", "m", "e">>, <<>> }

\* t in s, for strings.
Contains(s, t) ==
    \E i \in 0..(Len(s) - Len(t)) : SubSeq(s, i + 1, i + Len(t)) = t

_is_nitraflame_device(ble_device, local_name) == Contains(local_name, DEVICE_NAME)

\* A detection callback that never sets scan_done
_detection_callback_never_signals(scan, ble_device, local_name) ==
    IF ~_is_nitraflame_device(ble_device, local_name) THEN scan
    ELSE IF \E i \in DOMAIN scan.device_list :
                scan.device_list[i].address = ble_device.address
    THEN scan
    ELSE [scan EXCEPT !.device_list = Append(@, ble_device)]

\* A detection callback that appends every matching device
_detection_callback_appends_all(scan, ble_device, local_name) ==
    IF ~_is_nitraflame_device(ble_device, local_name) THEN scan
    ELSE LET list == Append(scan.device_list, ble_device) IN
         [device_list |-> list,
          scan_done |-> scan.scan_done \/
                        (scan.max_devices # -1 /\ Len(list) = scan.max_devices),
          max_devices |-> scan.max_devices]

\* _detection_callback on the locals of the scan: a device whose name does
\* not match or whose address is in the list is ignored; otherwise it is
\* appended, and scan_done is set when the list has max_devices entries.
_detection_callback(scan, ble_device, local_name) ==
    IF ~_is_nitraflame_device(ble_device, local_name) THEN scan
    ELSE LET already_seen == { i \in DOMAIN scan.device_list :
                                 scan.device_list[i].address = ble_device.address }
         IN  IF Cardinality(already_seen) > 0 THEN scan
             ELSE LET list == Append(scan.device_list, ble_device) IN
                  [device_list |-> list,
                   scan_done |-> scan.scan_done \/
                                 (scan.max_devices # -1 /\ Len(list) = scan.max_devices),
                   max_devices |-> scan.max_devices]

session_vars ==
    <<state, is_connected, link, written, last, conn_vars, ops_vars, sessions>>

\* scan_for_nitraflame_devices(max_devices=...) is called and suspends
\* entering the BleakScanner context, the callback registered.
ScanCall ==
    /\ scan_pc \in {"none", "returned"}
    /\ max_devices' \in MaxDevicesArgs
    /\ device_list' = <<>>
    /\ scan_done' = FALSE
    /\ detected' = NoDevice
    /\ scan_pc' = "starting"
    /\ UNCHANGED session_vars

\* The scanner has started: the coroutine awaits wait_for(scan_done.wait()).
ScanStarted ==
    /\ scan_pc = "starting"
    /\ scan_pc' = "waiting"
    /\ UNCHANGED <<max_devices, device_list, scan_done, detected, session_vars>>

\* The scanner reports an advertisement, at any time from the registration of
\* the callback until the scanner has stopped.
DetectionCallback ==
    /\ scan_pc \in {"starting", "waiting", "stopping"}
    /\ \E address \in Addresses, local_name \in LocalNames :
        LET ble_device == BLEDevice(address, local_name)
            r == _detection_callback([device_list |-> device_list,
                                      scan_done |-> scan_done,
                                      max_devices |-> max_devices],
                                     ble_device, local_name)
        IN  /\ device_list' = r.device_list
            /\ scan_done' = r.scan_done
            /\ detected' = ble_device
    /\ UNCHANGED <<max_devices, scan_pc, session_vars>>

\* wait_for returns: scan_done is set.
ScanWaitReturns ==
    /\ scan_pc = "waiting"
    /\ scan_done
    /\ scan_pc' = "stopping"
    /\ UNCHANGED <<max_devices, device_list, scan_done, detected, session_vars>>

\* wait_for raises asyncio.TimeoutError, which the scan catches.
ScanTimeout ==
    /\ scan_pc = "waiting"
    /\ ~scan_done
    /\ scan_pc' = "stopping"
    /\ UNCHANGED <<max_devices, device_list, scan_done, detected, session_vars>>

\* The scanner has stopped: the scan returns device_list.
ScanReturns ==
    /\ scan_pc = "stopping"
    /\ scan_pc' = "returned"
    /\ UNCHANGED <<max_devices, device_list, scan_done, detected, session_vars>>

NextScan ==
    \/ ScanCall
    \/ ScanStarted
    \/ DetectionCallback
    \/ ScanWaitReturns
    \/ ScanTimeout
    \/ ScanReturns

SpecScan == Init /\ [][NextScan]_vars

\* The scan with the progress the event loop guarantees: the scanner starts
\* and stops, and wait_for returns or times out after scan_timeout_seconds.
SpecScanFair ==
    /\ SpecScan
    /\ WF_vars(ScanStarted)
    /\ WF_vars(ScanWaitReturns)
    /\ WF_vars(ScanTimeout)
    /\ WF_vars(ScanReturns)

----------------------------------------------------------------------------
(* Properties of the setters *)

IsPrefix(s, t) == Len(s) <= Len(t) /\ SubSeq(t, 1, Len(s)) = s

Repeat(cmd, n) == [i \in 1..n |-> cmd]

\* The call returned: every write it made was acknowledged.
returned == last.ret = "ok"

\* The transition table of the heat mode: the commands from old to new.
HeatTable(old, new) ==
    CASE old = OFF /\ new = LOW -> <<SET_HEAT_LOW>>
      [] old = OFF /\ new = HIGH -> <<SET_HEAT_LOW, SET_HEAT_HIGH>>
      [] old = LOW /\ new = OFF -> <<SET_HEAT_LOW>>
      [] old = LOW /\ new = HIGH -> <<SET_HEAT_HIGH>>
      [] old = HIGH /\ new = LOW -> <<SET_HEAT_HIGH>>
      [] old = HIGH /\ new = OFF -> <<SET_HEAT_HIGH, SET_HEAT_LOW>>
      [] OTHER -> <<>>

C2_HeatRejectedWhenOff ==
    (last.op = "set_heat_mode" /\ ~last.pre.is_powered_on /\ last.arg \in {LOW, HIGH}) =>
        /\ written = <<>>
        /\ state = last.pre

\* C2 witness: set_heat_mode(HIGH) has returned on a connected session whose
\* cached State is powered off.
C2_Witness ==
    /\ last.op = "set_heat_mode" /\ ~last.pre.is_powered_on /\ last.arg = HIGH
    /\ is_connected /\ returned

\* C3: with the cached State powered off, set_heat_mode(OFF) writes no
\* command, whatever calls and notifications came before.
C3_HeatOffWhenOffIsNoOp ==
    (last.op = "set_heat_mode" /\ ~last.pre.is_powered_on /\ last.arg = OFF) =>
        written = <<>>

Abs(n) == IF n < 0 THEN -n ELSE n

\* The commands of a brightness change from old to target with the step
\* commands inc and dec.
BrightnessSteps(old, target, inc, dec) ==
    IF target > old THEN Repeat(inc, target - old)
    ELSE IF target < old THEN Repeat(dec, old - target)
    ELSE <<>>

\* C4: set_flame_brightness(b) and set_bed_brightness(b) leave the cached
\* brightness at clamp(b, 1, 10) and write |clamp(b, 1, 10) - old| commands, all
\* Inc when the target is above old, all Dec when it is below, none when equal:
\* all of them when the call returns, and otherwise those up to the write the
\* transport failed.
C4_BrightnessRamp ==
    /\ last.op = "set_flame_brightness" =>
        LET target == clamp(last.arg, 1, 10)
            steps == BrightnessSteps(last.pre.flame_brightness, target,
                                     FLAME_BRIGHTNESS_INC, FLAME_BRIGHTNESS_DEC)
        IN  /\ state.flame_brightness = target
            /\ Len(steps) = Abs(target - last.pre.flame_brightness)
            /\ IsPrefix(written, steps)
            /\ returned => written = steps
            /\ steps = <<>> => returned
    /\ last.op = "set_bed_brightness" =>
        LET target == clamp(last.arg, 1, 10)
            steps == BrightnessSteps(last.pre.bed_brightness, target,
                                     BED_BRIGHTNESS_INC, BED_BRIGHTNESS_DEC)
        IN  /\ state.bed_brightness = target
            /\ Len(steps) = Abs(target - last.pre.bed_brightness)
            /\ IsPrefix(written, steps)
            /\ returned => written = steps
            /\ steps = <<>> => returned

\* C4 witness: set_flame_brightness(11) at brightness 1 has written nine Inc
\* commands and left the brightness at 10.
C4_Witness ==
    /\ last.op = "set_flame_brightness" /\ last.arg = 11
    /\ last.pre.flame_brightness = 1
    /\ returned /\ written = Repeat(FLAME_BRIGHTNESS_INC, 9)
    /\ state.flame_brightness = 10

\* C5: set_powered_on(v) leaves the cached is_powered_on at v; it writes no
\* command when v is the cached value, and one PowerToggle, nothing else, when
\* it is not (the one write the call makes; it is acknowledged when the call
\* returns).
C5_PowerToggle ==
    last.op = "set_powered_on" =>
        /\ state.is_powered_on = last.arg
        /\ last.pre.is_powered_on = last.arg => written = <<>> /\ returned
        /\ last.pre.is_powered_on # last.arg =>
            /\ IsPrefix(written, <<POWER_TOGGLE>>)
            /\ returned => written = <<POWER_TOGGLE>>

\* C5 witness: set_powered_on(True) on a powered-off State has written one
\* PowerToggle.
C5_Witness ==
    /\ last.op = "set_powered_on" /\ last.arg = TRUE /\ ~last.pre.is_powered_on
    /\ returned /\ written = <<POWER_TOGGLE>> /\ state.is_powered_on

\* C6: set_thermostat(t) leaves the cached thermostat at clamp(t, 16, 31); it
\* writes no command when that is the cached value, and one SetThermostat
\* carrying clamp(t, 16, 31) as its parameter byte, nothing else, when it is not.
C6_ThermostatWrittenOnChange ==
    last.op = "set_thermostat" =>
        LET t == clamp(last.arg, 16, 31) IN
        /\ state.thermostat = t
        /\ t = last.pre.thermostat => written = <<>>
        /\ t # last.pre.thermostat =>
            /\ IsPrefix(written, << <<162, 1, t>> >>)
            /\ returned => written = << <<162, 1, t>> >>

\* C7: set_flame_color(c) and set_bed_color(c) leave the cached color of their
\* channel at c; they write no command when c is the cached color, and one
\* SetFlameColor / SetFuelColor carrying the code of c, nothing else, when it
\* is not.
C7_ColorWrittenOnChange ==
    /\ last.op = "set_flame_color" =>
        /\ state.flame_color = last.arg
        /\ last.arg = last.pre.flame_color => written = <<>>
        /\ last.arg # last.pre.flame_color =>
            /\ IsPrefix(written, << <<193, 1, last.arg>> >>)
            /\ returned => written = << <<193, 1, last.arg>> >>
    /\ last.op = "set_bed_color" =>
        /\ state.bed_color = last.arg
        /\ last.arg = last.pre.bed_color => written = <<>>
        /\ last.arg # last.pre.bed_color =>
            /\ IsPrefix(written, << <<194, 1, last.arg>> >>)
            /\ returned => written = << <<194, 1, last.arg>> >>

\* C8: a setter called a second time with the same argument, right after the
\* first call has returned and with no notification in between, writes no
\* command.
C8_SettersIdempotent ==
    (last.op \in Setters /\ last.after = "ok") => written = <<>>

----------------------------------------------------------------------------
(* Properties of the cached State *)

C16_NewSession ==
    last.op = "__init__" =>
        /\ ~is_connected
        /\ state = [is_powered_on |-> FALSE, heat_mode |-> 11, thermostat |-> 16,
                    flame_brightness |-> 1, bed_brightness |-> 1,
                    flame_color |-> 0, bed_color |-> 0]

\* C16 witness: the session right after its construction.
C16_Witness ==
    /\ last.op = "__init__"
    /\ ~is_connected /\ link = "unset" /\ written = <<>>
    /\ ~state.is_powered_on /\ state.thermostat = 16

----------------------------------------------------------------------------
(* Properties of the decoder *)

\* The structural checks of a status frame: at least two bytes, the first
\* 0x20, and seven bytes after the second.
WellFormed(data) == Len(data) >= 2 /\ data[1] = 32 /\ Len(data) - 2 = 7

\* C9: update_from_bytes(data) returns True exactly when data has at least two
\* bytes, starts with 0x20 and has seven bytes after the second, whatever the
\* length byte and the payload bytes are.
C9_AcceptsExactlyWellFormed ==
    last.op = "update_from_bytes" => (last.ret = "True" <=> WellFormed(last.arg))

\* C10: for a frame that fails a structural check, update_from_bytes returns
\* False and leaves every field of the State as it was.
C10_MalformedLeavesState ==
    (last.op = "update_from_bytes" /\ ~WellFormed(last.arg)) =>
        /\ last.ret = "False"
        /\ state = last.pre

\* C10 witness: nine bytes with a wrong first byte were refused by a State
\* that a status frame had overwritten before.
C10_Witness ==
    /\ last.op = "update_from_bytes"
    /\ Len(last.arg) = 9 /\ last.arg[1] = 33
    /\ last.ret = "False"
    /\ last.pre # State_init /\ state = last.pre

\* x pinned to the nearest end of lo .. hi.
Saturate(x, lo, hi) == IF x < lo THEN lo ELSE IF x > hi THEN hi ELSE x

\* The State the status layout gives for the seven payload bytes p (p[1] is
\* the state code, p[2] the unused byte).
Decoded(p) ==
    [is_powered_on |-> p[1] > 10,
     heat_mode |-> CASE p[1] = 12 -> LOW [] p[1] = 13 -> HIGH [] OTHER -> OFF,
     thermostat |-> Saturate(p[3] + 16, 16, 31),
     flame_brightness |-> Saturate(p[4] + 1, 1, 10),
     bed_brightness |-> Saturate(p[5] + 1, 1, 10),
     flame_color |-> Saturate(p[6], 0, 24),
     bed_color |-> Saturate(p[7], 0, 24)]

Payload(data) == SubSeq(data, 3, Len(data))

\* C11: for a well-formed frame whose state code is in 0x00 .. 0x0D,
\* update_from_bytes returns True and leaves the State at: powered on exactly
\* when the code is above 0x0A; heat mode OFF when not powered on and OFF / LOW /
\* HIGH for 0x0B / 0x0C / 0x0D; thermostat clamp(p[2] + 16, 16, 31); brightnesses
\* clamp(p[3] + 1, 1, 10) and clamp(p[4] + 1, 1, 10); colors clamp(p[5], 0, 0x18)
\* and clamp(p[6], 0, 0x18); whatever p[1] and the State before are.
C11_DecodeLayout ==
    (last.op = "update_from_bytes" /\ WellFormed(last.arg) /\ last.arg[3] \in 0..13) =>
        /\ last.ret = "True"
        /\ state = Decoded(Payload(last.arg))

\* C11 witness: state code 0x0B with a zero unused byte, on a State that was
\* not the default one, has decoded to powered on with heat mode OFF.
C11_Witness ==
    /\ last.op = "update_from_bytes" /\ WellFormed(last.arg)
    /\ last.arg[3] = 11 /\ last.arg[4] = 0
    /\ last.pre # State_init
    /\ last.ret = "True"
    /\ state.is_powered_on /\ state.heat_mode = OFF

C13_DecodeSaturates ==
    (last.op = "update_from_bytes" /\ WellFormed(last.arg)) =>
        /\ last.ret = "True"
        /\ state = Decoded(Payload(last.arg))

\* C14: the frame [0x20, 0x07, state, x, thermostat - 16, flameBrightness - 1,
\* fuelBrightness - 1, flameColor, fuelColor] of a tuple in range, with the
\* heat OFF when the power is off and state = 0x0A when off and the heat code
\* otherwise, decodes to that tuple: the State after the call is a tuple in
\* range whose frame is the decoded one (no two tuples have the same frame).
C14_RoundTrip ==
    (last.op = "update_from_bytes" /\ last.arg \in StatusFrames) =>
        /\ last.ret = "True"
        /\ state \in InRangeStates
        /\ StatusFrame(state, last.arg[4]) = last.arg

\* C14 witness: the frame of (on, HIGH, 31, 10, 10, 0x18, 0x18) was decoded by
\* a new State, which now holds that tuple.
C14_Witness ==
    /\ last.op = "update_from_bytes"
    /\ last.arg = <<32, 7, 13, 0, 15, 9, 9, 24, 24>>
    /\ last.pre = State_init
    /\ state = [is_powered_on |-> TRUE, heat_mode |-> 13, thermostat |-> 31,
                flame_brightness |-> 10, bed_brightness |-> 10,
                flame_color |-> 24, bed_color |-> 24]

----------------------------------------------------------------------------
(* Properties of connect() and disconnect() *)

\* C17: a call of connect() made while the session is connected or while
\* another coroutine holds the connection lock returns in the same step of the
\* event loop, without suspending and without changing the session; and at
\* most one coroutine is awaiting establish_connection at any time.
C17_ConnectNoOp ==
    /\ [][\A c \in Callers :
            ( /\ pc[c] = "idle"
              /\ event' = Step("connect", c, "call", FALSE, event'.ret)
              /\ (is_connected \/ connection_lock # 0) )
            => /\ event'.ret = "ok"
               /\ UNCHANGED <<is_connected, link, connection_lock, subscribed, pc>>]_vars
    /\ [](Cardinality({ c \in Callers : pc[c] = "establish_connection" }) <= 1)

\* C17 witness: a coroutine has called connect() and returned at once while
\* another one is awaiting establish_connection, the session not yet connected.
C17_Witness ==
    /\ event.op = "connect" /\ event.step = "call" /\ event.ret = "ok"
    /\ ~is_connected
    /\ connection_lock \in Callers \ {event.caller}
    /\ pc[connection_lock] = "establish_connection"
    /\ pc[event.caller] = "idle"

\* C18: the session is connected (is_connected is true) only when the
\* notification handler has been subscribed on the open connection.
C18_ConnectedOnlyWhenSubscribed ==
    is_connected => subscribed

\* C19: when an await of connect() raises BleakError (establish_connection, a
\* read of an identity attribute, or start_notify), connect() returns
\* normally at that step, with the connection lock released and the session
\* not connected.
C19_ConnectFailureIsSilent ==
    (event.op = "connect" /\ event.raised) =>
        /\ event.ret = "ok"
        /\ pc[event.caller] = "idle"
        /\ connection_lock = 0
        /\ ~is_connected

\* C19 witness: start_notify has raised on an open connection, after all
\* three reads had returned.
C19_Witness ==
    /\ event.op = "connect" /\ event.raised /\ event.step = "start_notify"
    /\ link = "up"
    /\ event.ret = "ok" /\ ~is_connected

\* C20: when disconnect() returns, the session is not connected.
C20_DisconnectedOnReturn ==
    (event.op = "disconnect" /\ event.ret = "ok") => ~is_connected

----------------------------------------------------------------------------
(* Properties of the session with setters and query_state in progress *)

\* C21: when the transport reports a disconnection, at whatever await the
\* setters, query_state and connect() in progress are, that step leaves the
\* session not connected and changes nothing else of it: not the cached
\* State, not a lock or the signal, not the position of any coroutine.
C21_DisconnectionSetsFlagOnly ==
    [][event' = Step("disconnected_callback", 0, "call", FALSE, "ok") =>
        /\ ~is_connected'
        /\ UNCHANGED <<state, pc, connection_lock, state_lock, state_updated>>
        /\ \A c \in Callers : call'[c] = [call[c] EXCEPT !.lost = call'[c].lost]]_vars

\* C21 witness: the disconnection was reported while a coroutine was awaiting
\* the second write of its call and another was waiting for the state lock.
C21_Witness ==
    /\ event = Step("disconnected_callback", 0, "call", FALSE, "ok")
    /\ ~is_connected
    /\ \E c, d \in Callers :
        /\ pc[c] = "write" /\ Len(call[c].sent) = 2
        /\ pc[d] = "state_lock"

\* The awaits of connect(), as a set.
InConnect == { ConnectAwaits[i] : i \in 1..Len(ConnectAwaits) }

\* Coroutine c calls a setter or query_state in this step.
Calls(c) == pc[c] = "idle" /\ event'.caller = c /\ event'.step = "call"

C23_FailedConnectIsNoOp ==
    [][\A c \in Callers :
        (pc[c] \in InConnect /\ event'.caller = c /\ event'.raised) =>
            /\ event'.ret \notin {"AttributeError", "BleakError"}
            /\ call'[c].sent = <<>>]_vars

\* C24: when wait_for times out in query_state and no well-formed status
\* frame has arrived since query_state cleared the signal, query_state
\* returns normally, the cached State is what it was when the signal was
\* cleared, and the state lock is free.
C24_QueryTimeout ==
    [][\A c \in Callers :
        (/\ pc[c] = "wait"
         /\ event' = Step("query_state", c, "wait", TRUE, event'.ret)
         /\ ~heard.wellformed) =>
            /\ event'.ret = "ok"
            /\ pc'[c] = "idle"
            /\ state' = heard.pre
            /\ state_lock' = Unlocked]_vars

\* C24 witness: a query_state has timed out on a session whose cached State
\* earlier notifications had changed; the lock is free.
C24_Witness ==
    \E c \in Callers :
        /\ event = Step("query_state", c, "wait", TRUE, "ok")
        /\ state # State_init
        /\ state_lock = Unlocked
        /\ pc[c] = "idle"

\* C25: when query_state returns because the signal was set, a status frame
\* was decoded after the signal was cleared and the cached State holds the
\* decoded values of the last such frame.
C25_QueryReturnsDecodedFrame ==
    [][\A c \in Callers :
        (pc[c] = "wait" /\ event' = Step("query_state", c, "wait", FALSE, "ok")) =>
            /\ heard.frame # <<>>
            /\ state = Decoded(Payload(heard.frame))]_vars

\* C26: on_notify sets the signal when the frame decodes; when it does not,
\* the signal and the cached State are as they were and nothing is raised.
C26_SignalIffDecoded ==
    [][event'.op = "on_notify" =>
        IF event'.ret = "True"
        THEN state_updated'
        ELSE /\ state_updated' = state_updated
             /\ state' = state
             /\ ~event'.raised]_vars

\* C27: a coroutine that is awaiting a write or the signal holds the state
\* lock, the lock is held by no coroutine that is outside such a call, and
\* when a coroutine issues a write no other coroutine has a call in progress
\* that has written: the command sequences of two calls do not interleave.
C27_SequencesDoNotInterleave ==
    /\ [](\A c \in Callers : pc[c] \in {"write", "wait"} => state_lock = c)
    /\ [](state_lock # Unlocked => pc[state_lock] \in {"write", "wait"})
    /\ [][\A c \in Callers :
            (event'.caller = c /\ pc'[c] = "write" /\ call'[c].sent # call[c].sent) =>
                \A d \in Callers \ {c} :
                    call[d].sent = <<>> /\ pc[d] \notin {"write", "wait"}]_vars

\* C27 witness: a coroutine has called a setter or query_state while another
\* was awaiting the second write of its sequence, and waits for the lock.
C27_Witness ==
    \E c, d \in Callers :
        /\ state_lock = c /\ pc[c] = "write" /\ Len(call[c].sent) = 2
        /\ event = Step(call[d].op, d, "call", FALSE, "awaiting")
        /\ pc[d] = "state_lock"

\* C28: the cached State changes only in a step of the coroutine that holds
\* the state lock, or while the lock is free.
C28_StateChangesUnderLock ==
    [][state' # state => (state_lock = Unlocked \/ state_lock = event'.caller)]_vars

\* C29: when the link was lost while a write of a setter was pending, or the
\* write was issued on a lost link, the setter sends no further command and
\* an error leaves it.
C29_LinkLossAbortsSequence ==
    [][\A c \in Callers :
        (/\ pc[c] = "write" /\ event'.caller = c
         /\ call[c].op # "query_state"
         /\ (call[c].lost \/ link # "up")) =>
            /\ event'.ret = "BleakError"
            /\ pc'[c] = "idle"
            /\ call'[c] = NoCall]_vars

\* C29 witness: the link was lost while the first of the two writes of a heat
\* transition was pending.
C29_Witness ==
    \E c \in Callers :
        /\ event = Step("disconnected_callback", 0, "call", FALSE, "ok")
        /\ pc[c] = "write" /\ call[c].lost
        /\ call[c].op = "set_heat_mode" /\ call[c].todo # <<>>

----------------------------------------------------------------------------
(* Properties of the scan *)

\* C30: device_list, which the scan returns, never holds two devices with
\* the same address.
C30_NoDuplicateAddress ==
    \A i, j \in DOMAIN device_list :
        device_list[i].address = device_list[j].address => i = j

\* C30 witness: the scan has returned two devices, and the last detection
\* callback brought an address that is in the list under another name.
C30_Witness ==
    /\ scan_pc = "returned"
    /\ Len(device_list) = 2
    /\ \E i \in DOMAIN device_list :
        /\ detected.address = device_list[i].address
        /\ detected.name # device_list[i].name
        /\ _is_nitraflame_device(detected, detected.name)

\* The scan has been called and has not returned.
Scanning == scan_pc \in {"starting", "waiting", "stopping"}

\* C31: a scan that has been called returns its list; while it runs with a
\* positive max_devices, scan_done is set as soon as the list holds
\* max_devices devices, and a scan whose scan_done is set leaves its wait
\* without waiting for the timeout; nothing is raised (every step of the scan
\* ends in the return).
C31_ScanReturns ==
    /\ [](Scanning /\ max_devices > 0 /\ Len(device_list) >= max_devices => scan_done)
    /\ [][scan_pc = "waiting" /\ scan_done => scan_pc' \in {"waiting", "stopping"}]_vars
    /\ (Scanning ~> scan_pc = "returned")

\* C31 witness: a scan asked for MaxScanDevices devices has returned by the
\* timeout with one device, after a detection that did not match.
C31_Witness ==
    /\ scan_pc = "returned"
    /\ ~scan_done
    /\ max_devices = MaxScanDevices
    /\ Len(device_list) = 1
    /\ ~_is_nitraflame_device(detected, detected.name)

\* C40: a scan called with a positive max_devices returns at most
\* max_devices devices.
C40_AtMostMaxDevices ==
    (scan_pc = "returned" /\ max_devices > 0) => Len(device_list) <= max_devices

----------------------------------------------------------------------------
(* Further properties of the session with setters and query_state in progress *)

\* Coroutine c passes a command to write_gatt_char in this step.
Writes(c) == event'.caller = c /\ pc'[c] = "write" /\ call'[c].sent # call[c].sent

\* C32: a setter or query_state passes a command to write_gatt_char only
\* when the session is connected and no connect() is in progress.
C32_WritesOnlyWhenConnected ==
    [][\A c \in Callers :
        Writes(c) => (is_connected' /\ connection_lock' = Unlocked)]_vars

----------------------------------------------------------------------------
(* Further properties of the cached State and of the setters *)

\* C33: whenever the cached State is not powered on, its heat mode is OFF.
C33_OffImpliesHeatOff ==
    ~state.is_powered_on => state.heat_mode = OFF

\* C38: update_from_bytes either returns True with all seven fields decoded
\* from the frame, or leaves all seven fields as they were.
C38_AllOrNothing ==
    last.op = "update_from_bytes" =>
        \/ last.ret = "True" /\ state = Decoded(Payload(last.arg))
        \/ state = last.pre

\* C39: when a setter has failed in a write and the same call is made again
\* and returns, the second call has written a command.
C39_RepeatAfterFailureSends ==
    (/\ last.op \in Setters
     /\ last.after = "BleakError"
     /\ returned) =>
        written # <<>>

----------------------------------------------------------------------------
(* Properties of the brightness ramp and of termination *)

\* The number of times cmd occurs in the sequence s.
Count(s, cmd) == Cardinality({ i \in DOMAIN s : s[i] = cmd })

\* The cached brightness that the brightness setter c is in found at its
\* entry: its local old_value, with the steps of the acknowledged writes
\* (all but the pending one) undone.
EntryBrightness(c) ==
    LET acked == SubSeq(call[c].sent, 1, Len(call[c].sent) - 1)
    IN  call[c].old_value + Count(acked, brightness_cmd(call[c].op, "dec"))
                          - Count(acked, brightness_cmd(call[c].op, "inc"))

\* C34: a brightness setter never writes more commands than the distance
\* between the requested brightness and the cached one at its entry, and
\* never both an increment and a decrement.
C34_RampFixedAtEntry ==
    \A c \in Callers :
        (pc[c] = "write" /\ call[c].op \in {"set_flame_brightness", "set_bed_brightness"}) =>
            /\ Len(call[c].sent) <= Abs(call[c].arg - EntryBrightness(c))
            /\ ~(/\ Count(call[c].sent, brightness_cmd(call[c].op, "dec")) > 0
                 /\ Count(call[c].sent, brightness_cmd(call[c].op, "inc")) > 0)

\* C35: a coroutine that is in a setter comes out of it, whatever
\* notifications arrive while its ramp runs, and a coroutine that is in no
\* call does not hold the state lock.
C35_SettersTerminate ==
    /\ [](\A c \in Callers : pc[c] = "idle" => state_lock # c)
    /\ \A c \in Callers :
        (pc[c] # "idle" /\ call[c].op \in {"set_heat_mode", "set_flame_brightness"})
            ~> (pc[c] = "idle")

\* C35 witness: a brightness setter has returned from a ramp during which a
\* notification had raised the cached brightness above the request, and the
\* state lock is free.
C35_Witness ==
    \E c \in Callers :
        /\ event = Step("set_flame_brightness", c, "write", FALSE, "ok")
        /\ state.flame_brightness > BRIGHTNESS_MIN + BrightnessSpan
        /\ pc[c] = "idle" /\ state_lock = Unlocked

\* C36: a query_state that waits for the signal returns, and a coroutine
\* that waits for the state lock gets it.
C36_QueryReturns ==
    /\ \A c \in Callers : (pc[c] = "wait") ~> (pc[c] = "idle" /\ state_lock # c)
    /\ \A c \in Callers : (pc[c] = "state_lock") ~> (pc[c] # "state_lock")

\* C36 witness: a query_state has timed out and the setter that waited for
\* the state lock behind it has taken it.
C36_Witness ==
    \E c \in Callers :
        /\ event = Step(call[c].op, c, "state_lock", FALSE, "awaiting")
        /\ call[c].op # "query_state"
        /\ state_lock = c /\ pc[c] = "write"
        /\ ~state_updated

----------------------------------------------------------------------------
(* Property of several Device instances *)

\* C37: the query_state of an instance returns by the signal only when a
\* status frame of its own device was decoded since it cleared the signal,
\* and the connect() of an instance returns at its call only when that
\* instance is connected.
C37_InstancesIndependent ==
    [][\A d \in Sessions :
        /\ (/\ sessions[d].pc = "wait"
            /\ event' = Step("query_state", d, "wait", FALSE, "ok")) =>
                sessions[d].heard.frame # <<>>
        /\ (/\ sessions[d].pc = "idle"
            /\ event' = Step("connect", d, "call", FALSE, "ok")) =>
                sessions[d].is_connected]_vars

====
